---- MODULE Spec2Model ----
(***************************************************************************)
(* Adafruit CAP1188 capacitive touch sensor driver.                        *)
(*                                                                         *)
(* Two implementations of the driver live in the repository and both are   *)
(* modelled, selected by drv.impl:                                         *)
(*   "busio"  : src/unnamed/part_000 (Adafruit_I2CDevice/Adafruit_SPIDevice)*)
(*   "legacy" : src/Adafruit_CAP1188.cpp (Wire, SPIClass, bit-banged SPI)  *)
(* The chip is a register file behind an I2C or an SPI command decoder.    *)
(***************************************************************************)
EXTENDS Integers, Sequences, FiniteSets, TLC

VARIABLES drv, chip, call, ncalls, crashed, xfer, ctx

vars == <<drv, chip, call, ncalls, crashed, xfer, ctx>>

-----------------------------------------------------------------------------
(* Register map and wire constants (Adafruit_CAP1188.h)                    *)

CAP1188_SENINPUTSTATUS == 3
CAP1188_MTBLK == 42
CAP1188_LEDLINK == 114
CAP1188_PRODID == 253
CAP1188_MANUID == 254
CAP1188_STANDBYCFG == 65
CAP1188_REV == 255
CAP1188_MAIN == 0
CAP1188_MAIN_INT == 1
CAP1188_LEDPOL == 115

\* SPI command bytes
SPI_SET_ADDR == 125
SPI_WRITE == 126
SPI_READ == 127

\* identity values begin() expects
EXPECT_PRODID == 80
EXPECT_MANUID == 93
EXPECT_REV == 131

\* pin numbers of the example wiring, and "no reset pin"
NO_PIN == -1
RESET_PIN == 9
CLK_PIN == 13

Byte == 0..255

Bit == {0, 1}

-----------------------------------------------------------------------------
(* Bounds of the model                                                     *)

\* API calls made on one driver instance in one run
MaxCalls == 2

-----------------------------------------------------------------------------
(* Integer helpers: C operators on fixed-width values                      *)

\* 2^n for n in 0..15
Pow2(n) == << 1, 2, 4, 8, 16, 32, 64, 128, 256, 512, 1024, 2048, 4096, 8192,
              16384, 32768 >>[n + 1]

\* a & b on non-negative integers
RECURSIVE BitAnd(_, _)
BitAnd(a, b) ==
  IF a = 0 \/ b = 0 THEN 0
  ELSE (IF a % 2 = 1 /\ b % 2 = 1 THEN 1 ELSE 0) + 2 * BitAnd(a \div 2, b \div 2)

\* conversion to uint8_t
ToUint8(x) == x % 256

\* ~x on an int, as the two's complement bit pattern (16-bit int of the AVR
\* targets; the low 8 bits are the same for any wider int)
IntNot(x) == 65535 - x

\* 1 << i
Shl1(i) == Pow2(i)

\* digitalWrite(pin, val): val is converted to uint8_t, any non-zero is HIGH
DigitalLevel(val) == IF ToUint8(val) = 0 THEN 0 ELSE 1

\* TRUE, once x has been evaluated: the statements of a handler run in
\* program order, each on the complete result of the one before
Ready(x) == x.last = x.last

\* a | b on non-negative integers
RECURSIVE BitOr(_, _)
BitOr(a, b) ==
  IF a = 0 THEN b
  ELSE IF b = 0 THEN a
  ELSE (IF a % 2 = 1 \/ b % 2 = 1 THEN 1 ELSE 0) + 2 * BitOr(a \div 2, b \div 2)

-----------------------------------------------------------------------------
(* Bus and pin events.  k is the kind, a and b its operands (0 if unused): *)
(*   "cs" a=level, "clk" a=level, "reset" a=level          pin writes      *)
(*   "xfer" a=byte on MOSI, b=byte on MISO                  one SPI byte    *)
(*   "spi_begin", "spi_end"                    SPI settings transaction    *)
(*   "start" a=0 write / 1 read, "rstart" a=1, "wr" a=byte, "rd" a=byte,   *)
(*   "stop"                                                 I2C            *)
(*   "foreign" a=register                another I2C controller's write    *)

Ev(k, a, b) == [k |-> k, a |-> a, b |-> b]

-----------------------------------------------------------------------------
(* The chip: a register file that stores written bytes, an address         *)
(* pointer, and the SPI command decoder.                                   *)

RegValue(c, r) == IF r \in DOMAIN c.regs THEN c.regs[r] ELSE 0

StoreReg(c, r, v) ==
  [c EXCEPT !.regs = [x \in (DOMAIN c.regs) \cup {r} |->
                        IF x = r THEN v ELSE c.regs[x]]]

\* chip-select edge: asserting (level 0) starts command decoding
ChipSpiCs(c, level) == [c EXCEPT !.dec = IF level = 0 THEN "cmd" ELSE "idle"]

\* the byte the chip shifts out during the next SPI byte
ChipSpiOut(c) == IF c.dec = "read" THEN RegValue(c, c.ptr) ELSE 0

\* the chip decodes one received SPI byte
ChipSpiIn(c, b) ==
  CASE c.dec = "cmd" ->
         [c EXCEPT !.dec = CASE b = 125 -> "addr"
                             [] b = 126 -> "data"
                             [] b = 127 -> "read"
                             [] OTHER -> "cmd"]
    [] c.dec = "addr" -> [c EXCEPT !.ptr = b, !.dec = "cmd"]
    [] c.dec = "data" -> [StoreReg(c, c.ptr, b) EXCEPT !.dec = "cmd"]
    [] c.dec = "read" -> [c EXCEPT !.dec = IF b = 127 THEN "read" ELSE "cmd"]
    [] OTHER -> c

\* the chip follows an I2C write: after START the first byte sets the
\* pointer, a following byte is stored there; STOP ends the transaction
ChipI2c(c, e) ==
  CASE e.k = "start" /\ e.a = 0 -> [c EXCEPT !.dec = "waddr"]
    [] e.k = "wr" /\ c.dec = "waddr" -> [c EXCEPT !.ptr = e.a, !.dec = "wdata"]
    [] e.k = "wr" /\ c.dec = "wdata" -> StoreReg(c, c.ptr, e.a)
    [] e.k = "stop" -> [c EXCEPT !.dec = "idle"]
    [] OTHER -> c

\* an I2C read transaction returns the register under the pointer
ChipI2cRead(c) == RegValue(c, c.ptr)

\* in SPI mode 0 the chip shifts its byte out MSB first: level of the k-th bit
ChipMisoBits(byte) == [k \in 1..8 |-> (byte \div Pow2(8 - k)) % 2]

\* the chip samples MOSI on every rising clock edge and assembles MSB
\* first; i is the next pin event, clk and mosi the levels so far
RECURSIVE ChipSample(_, _, _, _, _)
ChipSample(pins, i, clk, mosi, acc) ==
  IF i > Len(pins) THEN acc
  ELSE CASE pins[i].k = "clk" ->
              ChipSample(pins, i + 1, pins[i].a, mosi,
                         IF clk = 0 /\ pins[i].a = 1 THEN ToUint8(acc * 2 + mosi)
                         ELSE acc)
         [] pins[i].k = "mosi" -> ChipSample(pins, i + 1, clk, pins[i].a, acc)
         [] OTHER -> ChipSample(pins, i + 1, clk, mosi, acc)

-----------------------------------------------------------------------------
(* Software SPI (legacy driver)                                            *)

\* faulty variant: the loop sending the least significant bit first
RECURSIVE SpixferLoopLsbFirst(_, _, _, _, _)
SpixferLoopLsbFirst(i, data, miso, reply, pins) ==
  IF i < 0 THEN [reply |-> reply, pins |-> pins]
  ELSE LET shifted == ToUint8(reply * 2)
           level == miso[8 - i]
       IN SpixferLoopLsbFirst(i - 1, data, miso,
                      IF level # 0 THEN BitOr(shifted, 1) ELSE shifted,
                      pins \o << Ev("clk", 0, 0),
                                 Ev("mosi", DigitalLevel(BitAnd(data, Shl1(7 - i))), 0),
                                 Ev("clk", 1, 0),
                                 Ev("miso", level, 0) >>)

\* the for loop of spixfer, i = 7 down to 0; miso[k] is the level
\* digitalRead(_miso) returns during the k-th iteration
RECURSIVE SpixferLoop(_, _, _, _, _)
SpixferLoop(i, data, miso, reply, pins) ==
  IF i < 0 THEN [reply |-> reply, pins |-> pins]
  ELSE LET shifted == ToUint8(reply * 2)
           level == miso[8 - i]
       IN SpixferLoop(i - 1, data, miso,
                      IF level # 0 THEN BitOr(shifted, 1) ELSE shifted,
                      pins \o << Ev("clk", 0, 0),
                                 Ev("mosi", DigitalLevel(BitAnd(data, Shl1(i))), 0),
                                 Ev("clk", 1, 0),
                                 Ev("miso", level, 0) >>)

SoftSpixfer(data, miso) == SpixferLoop(7, data, miso, 0, << >>)

\* Byte by byte: the loop drives MOSI from data alone and builds its reply
\* from the MISO levels alone, so what the chip receives is a function of
\* the byte sent (the clock idles high between bytes) and what the driver
\* gets a function of the byte the chip shifts out.
SoftSeen == [data \in Byte |->
               ChipSample(SoftSpixfer(data, ChipMisoBits(0)).pins, 1, 1, 0, 0)]

SoftReply == [out \in Byte |-> SoftSpixfer(0, ChipMisoBits(out)).reply]

-----------------------------------------------------------------------------
(* The driver.  d = [impl, ctor, i2c_dev, spi_dev, i2c, clk, wire,          *)
(* resetpin, opened]: i2c_dev is whether the pointer is set, spi_dev is    *)
(* "null", "hw" or "sw"; i2c, clk and wire are the legacy driver's _i2c,   *)
(* _clk and whether _wire was set; opened is whether the bus was opened;   *)
(* ctor records which constructor built the instance (history only).       *)
(*                                                                         *)
(* The machine a call runs on: m = [chip, bus, ops, last].  bus is the     *)
(* trace of bus and pin events of the call, last the byte most recently    *)
(* read from the bus, ops the register operations the call made:           *)
(*   [op: "read"|"write", reg, val, via: "i2c"|"spi", ok, null]            *)
(* via is the branch the operation took, ok whether it reached an open bus,*)
(* null whether it went through a handle that was never set.               *)

\* the branch a register operation takes
Dispatch(d) ==
  IF d.impl = "busio" THEN (IF d.i2c_dev THEN "i2c" ELSE "spi")
  ELSE (IF d.i2c THEN "i2c" ELSE "spi")

\* whether that branch goes through a handle that was set
HandleSet(d) ==
  IF d.impl = "busio" THEN (d.i2c_dev \/ d.spi_dev # "null")
  ELSE (d.i2c => d.wire)

\* whether a register operation reaches the chip
Usable(d) == HandleSet(d) /\ d.opened

\* one byte over SPI: what the chip receives and what comes back.  The
\* legacy spixfer bit-bangs when _clk != -1 (the chip samples and drives the
\* pins); otherwise the SPI peripheral or the SPI device shifts the byte.
Spixfer(d, c, data) ==
  IF d.impl = "legacy" /\ d.clk # NO_PIN
  THEN [seen |-> SoftSeen[data], reply |-> SoftReply[ChipSpiOut(c)]]
  ELSE [seen |-> data, reply |-> ChipSpiOut(c)]

\* one step of a bus program.  foreign: the register another I2C controller
\* points the chip at while the bus is free ("gap"), -1 for none.
Step(d, m, s, foreign) ==
  CASE s.k = "cs" ->
         [m EXCEPT !.chip = ChipSpiCs(@, s.a), !.bus = Append(@, s)]
    [] s.k = "xfer" ->
         LET x == Spixfer(d, m.chip, s.a)
         IN [m EXCEPT !.chip = ChipSpiIn(@, x.seen),
                      !.bus = Append(@, Ev("xfer", x.seen, x.reply)),
                      !.last = x.reply]
    [] s.k = "rd" ->
         LET v == ChipI2cRead(m.chip)
         IN [m EXCEPT !.bus = Append(@, Ev("rd", v, 0)), !.last = v]
    [] s.k \in {"start", "rstart", "wr", "stop"} ->
         [m EXCEPT !.chip = ChipI2c(@, s), !.bus = Append(@, s)]
    [] s.k = "gap" ->
         IF foreign = -1 THEN m
         ELSE [m EXCEPT !.chip = ChipI2c(ChipI2c(ChipI2c(@, Ev("start", 0, 0)),
                                                 Ev("wr", foreign, 0)),
                                         Ev("stop", 0, 0)),
                        !.bus = Append(@, Ev("foreign", foreign, 0))]
    [] OTHER -> [m EXCEPT !.bus = Append(@, s)]

RECURSIVE Exec(_, _, _, _)
Exec(d, m, prog, foreign) ==
  CASE Ready(m) ->
    IF prog = << >> THEN m
    ELSE Exec(d, Step(d, m, Head(prog), foreign), Tail(prog), foreign)

\* the SPI bytes of a buffer
Xfers(buf) == [i \in 1..Len(buf) |-> Ev("xfer", buf[i], 0)]

\* the I2C bytes of a buffer
Wrs(buf) == [i \in 1..Len(buf) |-> Ev("wr", buf[i], 0)]

\* Adafruit_SPIDevice::write_then_read: one chip-select bracket, the write
\* buffer, then rlen bytes clocked in while 0xFF is sent
SpiDevWriteThenRead(wbuf, rlen) ==
  << Ev("cs", 0, 0) >> \o Xfers(wbuf) \o Xfers([i \in 1..rlen |-> 255])
    \o << Ev("cs", 1, 0) >>

\* Adafruit_SPIDevice::write: one chip-select bracket
SpiDevWrite(buf) == << Ev("cs", 0, 0) >> \o Xfers(buf) \o << Ev("cs", 1, 0) >>

\* Adafruit_I2CDevice::write_then_read (stop = false): START, the write,
\* a repeated START, rlen bytes read, STOP
I2cDevWriteThenRead(wbuf, rlen) ==
  << Ev("start", 0, 0) >> \o Wrs(wbuf) \o << Ev("rstart", 1, 0) >>
    \o [i \in 1..rlen |-> Ev("rd", 0, 0)] \o << Ev("stop", 0, 0) >>

\* Adafruit_I2CDevice::write; Wire's beginTransmission, write...,
\* endTransmission(): START, the bytes, STOP
I2cWriteTxn(buf) == << Ev("start", 0, 0) >> \o Wrs(buf) \o << Ev("stop", 0, 0) >>

\* Wire's requestFrom(addr, 1) and read(): START, one byte, STOP
I2cRequestOne == << Ev("start", 1, 0), Ev("rd", 0, 0), Ev("stop", 0, 0) >>

\* readRegister of the BusIO driver, as a bus program
ReadBusio(d, reg) ==
  IF d.i2c_dev THEN I2cDevWriteThenRead(<< reg >>, 1)
  ELSE SpiDevWriteThenRead(<< SPI_SET_ADDR, reg, SPI_READ >>, 1)

\* faulty variant: the legacy read without its address-set phase
ReadLegacyNoAddress(d, reg) ==
  IF d.i2c THEN I2cRequestOne
  ELSE << Ev("spi_begin", 0, 0), Ev("cs", 0, 0),
          Ev("xfer", SPI_READ, 0), Ev("xfer", 0, 0),
          Ev("cs", 1, 0), Ev("spi_end", 0, 0) >>

\* readRegister of the legacy driver; the bus is free between
\* endTransmission() and requestFrom().  The class declaration of this
\* driver is not among the sources: spi_begin() and spi_end() are taken to
\* act on a usable SPI object whichever SPI constructor built the instance.
ReadLegacy(d, reg) ==
  IF d.i2c THEN I2cWriteTxn(<< reg >>) \o << Ev("gap", 0, 0) >> \o I2cRequestOne
  ELSE << Ev("spi_begin", 0, 0), Ev("cs", 0, 0),
          Ev("xfer", SPI_SET_ADDR, 0), Ev("xfer", reg, 0),
          Ev("cs", 1, 0), Ev("cs", 0, 0),
          Ev("xfer", SPI_READ, 0), Ev("xfer", 0, 0),
          Ev("cs", 1, 0), Ev("spi_end", 0, 0) >>

\* faulty variant: the SPI write with the read command byte
WriteBusioReadCommand(d, reg, value) ==
  IF d.i2c_dev THEN I2cWriteTxn(<< reg, value >>)
  ELSE SpiDevWrite(<< SPI_SET_ADDR, reg, SPI_READ, value >>)

\* writeRegister of the BusIO driver, as a bus program
WriteBusio(d, reg, value) ==
  IF d.i2c_dev THEN I2cWriteTxn(<< reg, value >>)
  ELSE SpiDevWrite(<< SPI_SET_ADDR, reg, SPI_WRITE, value >>)

\* writeRegister of the legacy driver
WriteLegacy(d, reg, value) ==
  IF d.i2c THEN I2cWriteTxn(<< reg, value >>)
  ELSE << Ev("spi_begin", 0, 0), Ev("cs", 0, 0),
          Ev("xfer", SPI_SET_ADDR, 0), Ev("xfer", reg, 0),
          Ev("cs", 1, 0), Ev("cs", 0, 0),
          Ev("xfer", SPI_WRITE, 0), Ev("xfer", value, 0),
          Ev("cs", 1, 0), Ev("spi_end", 0, 0) >>

Op(m, op, reg, val, d) ==
  [m EXCEPT !.ops = Append(@, [op |-> op, reg |-> reg, val |-> val,
                               via |-> Dispatch(d), ok |-> Usable(d),
                               null |-> ~HandleSet(d)]),
            !.last = val]

\* readRegister(reg): the result is .last.  g is what a read that reaches
\* no open bus returns.
ReadRegister(d, m, reg, g, foreign) ==
  CASE Ready(m) ->
    IF ~Usable(d) THEN Op(m, "read", reg, g, d)
    ELSE LET x == Exec(d, m, IF d.impl = "busio" THEN ReadBusio(d, reg)
                             ELSE ReadLegacy(d, reg), foreign)
         IN Op(x, "read", reg, x.last, d)

\* writeRegister(reg, value); value is converted to uint8_t
WriteRegister(d, m, reg, value) ==
  CASE Ready(m) ->
    IF ~Usable(d) THEN Op(m, "write", reg, ToUint8(value), d)
    ELSE Op(Exec(d, m, IF d.impl = "busio" THEN WriteBusio(d, reg, ToUint8(value))
                       ELSE WriteLegacy(d, reg, ToUint8(value)), -1),
            "write", reg, ToUint8(value), d)

\* faulty variant: touched() that acknowledges whatever the status is
TouchedAlwaysClears(d, m, g1, g2) ==
  LET t == ReadRegister(d, m, CAP1188_SENINPUTSTATUS, g1, -1)
      r == ReadRegister(d, t, CAP1188_MAIN, g2, -1)
  IN [m |-> WriteRegister(d, r, CAP1188_MAIN,
                          BitAnd(r.last, IntNot(CAP1188_MAIN_INT))),
      ret |-> t.last]

\* faulty variant: touched() that masks with the interrupt bit instead of
\* its complement
TouchedKeepsInt(d, m, g1, g2) ==
  LET t == ReadRegister(d, m, CAP1188_SENINPUTSTATUS, g1, -1)
  IN IF t.last # 0
     THEN LET r == ReadRegister(d, t, CAP1188_MAIN, g2, -1)
          IN [m |-> WriteRegister(d, r, CAP1188_MAIN,
                                  BitAnd(r.last, CAP1188_MAIN_INT)),
              ret |-> t.last]
     ELSE [m |-> t, ret |-> t.last]

\* touched().  g1, g2: what its reads return when they reach no open bus.
Touched(d, m, g1, g2) ==
  LET t == ReadRegister(d, m, CAP1188_SENINPUTSTATUS, g1, -1)
  IN IF t.last # 0
     THEN LET r == ReadRegister(d, t, CAP1188_MAIN, g2, -1)
          IN [m |-> WriteRegister(d, r, CAP1188_MAIN,
                                  BitAnd(r.last, IntNot(CAP1188_MAIN_INT))),
              ret |-> t.last]
     ELSE [m |-> t, ret |-> t.last]

\* LEDpolarity(inverted)
LEDpolarity(d, m, inverted) == WriteRegister(d, m, CAP1188_LEDPOL, inverted)

\* begin(), first part: select and open the bus.  opens is what the BusIO
\* device's begin() returns; the legacy driver's Wire and SPI begin()
\* return nothing.
OpenBus(d, m, opens) ==
  IF d.impl = "busio"
  THEN IF d.spi_dev # "null"
       THEN [d |-> [d EXCEPT !.opened = opens], m |-> m, ok |-> opens]
       ELSE [d |-> [d EXCEPT !.i2c_dev = TRUE, !.opened = opens], m |-> m, ok |-> opens]
  ELSE IF d.i2c
       THEN [d |-> [d EXCEPT !.wire = TRUE, !.opened = TRUE], m |-> m, ok |-> TRUE]
       ELSE [d |-> [d EXCEPT !.opened = TRUE],
             m |-> Exec(d, m, IF d.clk = NO_PIN THEN << Ev("cs", 1, 0) >>
                              ELSE << Ev("cs", 1, 0), Ev("clk", 1, 0) >>, -1),
             ok |-> TRUE]

\* begin(), the reset pulse: low, high, low with 100 ms after each
ResetPulse(d, m) ==
  IF d.resetpin # NO_PIN
  THEN [m EXCEPT !.bus = @ \o << Ev("reset", 0, 0), Ev("delay", 100, 0),
                                Ev("reset", 1, 0), Ev("delay", 100, 0),
                                Ev("reset", 0, 0), Ev("delay", 100, 0) >>]
  ELSE m

\* begin(): the first read and the three reads printed as debugging info
DebugReads == << CAP1188_PRODID, CAP1188_PRODID, CAP1188_MANUID, CAP1188_REV >>

\* begin(): the identity registers and the values they must hold
IdChecks == << << CAP1188_PRODID, EXPECT_PRODID >>,
               << CAP1188_MANUID, EXPECT_MANUID >>,
               << CAP1188_REV, EXPECT_REV >> >>

\* faulty variant: the LED link and standby writes exchanged
ConfigWritesExchanged ==
  << << CAP1188_MTBLK, 0 >>, << CAP1188_STANDBYCFG, 48 >>,
     << CAP1188_LEDLINK, 255 >> >>

\* begin(): the configuration writes
ConfigWrites == << << CAP1188_MTBLK, 0 >>, << CAP1188_LEDLINK, 255 >>,
                   << CAP1188_STANDBYCFG, 48 >> >>

RECURSIVE ReadAll(_, _, _)
ReadAll(d, m, regs) ==
  IF regs = << >> THEN m
  ELSE ReadAll(d, ReadRegister(d, m, Head(regs), 0, -1), Tail(regs))

\* faulty variant: the chain without its last comparison
RECURSIVE CheckIdentityButLast(_, _, _)
CheckIdentityButLast(d, m, checks) ==
  IF Len(checks) <= 1 THEN [m |-> m, ok |-> TRUE]
  ELSE LET r == ReadRegister(d, m, Head(checks)[1], 0, -1)
       IN IF r.last # Head(checks)[2] THEN [m |-> r, ok |-> FALSE]
          ELSE CheckIdentityButLast(d, r, Tail(checks))

\* the || chain of begin(): read and compare in order, stop at the first
\* mismatch
RECURSIVE CheckIdentity(_, _, _)
CheckIdentity(d, m, checks) ==
  IF checks = << >> THEN [m |-> m, ok |-> TRUE]
  ELSE LET r == ReadRegister(d, m, Head(checks)[1], 0, -1)
       IN IF r.last # Head(checks)[2] THEN [m |-> r, ok |-> FALSE]
          ELSE CheckIdentity(d, r, Tail(checks))

RECURSIVE WriteAll(_, _, _)
WriteAll(d, m, writes) ==
  IF writes = << >> THEN m
  ELSE WriteAll(d, WriteRegister(d, m, Head(writes)[1], Head(writes)[2]),
                Tail(writes))

\* faulty variant: begin() that goes on after the bus failed to open
BeginIgnoringOpen(d, m, opens) ==
  LET o == OpenBus(d, m, opens)
      c == CheckIdentity(o.d, ReadAll(o.d, ResetPulse(o.d, o.m), DebugReads),
                         IdChecks)
  IN IF ~c.ok THEN [d |-> o.d, m |-> c.m, ret |-> 0]
     ELSE [d |-> o.d, m |-> WriteAll(o.d, c.m, ConfigWrites), ret |-> 1]

\* begin(i2caddr, theWire); ret is 1 for true, 0 for false
Begin(d, m, opens) ==
  LET o == OpenBus(d, m, opens)
  IN IF ~o.ok THEN [d |-> o.d, m |-> o.m, ret |-> 0]
     ELSE LET c == CheckIdentity(o.d, ReadAll(o.d, ResetPulse(o.d, o.m), DebugReads),
                                 IdChecks)
          IN IF ~c.ok THEN [d |-> o.d, m |-> c.m, ret |-> 0]
             ELSE [d |-> o.d, m |-> WriteAll(o.d, c.m, ConfigWrites), ret |-> 1]

-----------------------------------------------------------------------------
(* Constructors                                                            *)

Transports == {"i2c", "hwspi", "swspi"}

Impls == {"busio", "legacy"}

Construct(impl, transport, resetpin) ==
  [impl |-> impl,
   ctor |-> transport,
   i2c_dev |-> FALSE,
   spi_dev |-> IF impl = "busio"
               THEN (CASE transport = "hwspi" -> "hw"
                       [] transport = "swspi" -> "sw"
                       [] OTHER -> "null")
               ELSE "null",
   i2c |-> (impl = "legacy" /\ transport = "i2c"),
   clk |-> IF impl = "legacy" /\ transport = "swspi" THEN CLK_PIN ELSE NO_PIN,
   wire |-> FALSE,
   resetpin |-> resetpin,
   opened |-> FALSE]

\* the transport of the constructor that built the instance
Selected(d) == IF d.ctor = "i2c" THEN "i2c" ELSE "spi"

-----------------------------------------------------------------------------
(* State and inputs                                                        *)

\* registers and values the register-level calls are exercised with
TestRegs == {CAP1188_MAIN, CAP1188_SENINPUTSTATUS, CAP1188_PRODID}

TestVals == {0, 5, 80}

\* what a read that reaches no open bus may return
Garbage == {0, 165}

GarbageFor(d) == IF Usable(d) THEN {0} ELSE Garbage

ResetPins == {NO_PIN, RESET_PIN}

\* the chip after power-up: identity registers as built, some touch status
ChipWith(prod, manu, rev, status, main) ==
  [regs |-> (CAP1188_MAIN :> main) @@ (CAP1188_SENINPUTSTATUS :> status) @@
            (CAP1188_PRODID :> prod) @@ (CAP1188_MANUID :> manu) @@
            (CAP1188_REV :> rev),
   ptr |-> 0,
   dec |-> "idle"]

NoCall == [name |-> "none", reg |-> -1, val |-> -1, ret |-> -1,
           ops |-> << >>, bus |-> << >>,
           before |-> [regs |-> << >>, ptr |-> 0, dec |-> "idle"]]

XferIdle == [data |-> 0, miso |-> ChipMisoBits(0), done |-> FALSE,
             reply |-> 0, pins |-> << >>]

\* the execution contexts that may call into the instance
Contexts == {1, 2}

\* a context that has not called: op is the method it is in, prog the bus
\* operations it has still to do, last its local reply byte; at is the
\* register the chip had selected when the data byte went over the bus
\* (-1: none), content what the register asked for held at that moment, and
\* overlap whether the other context used the bus during the call
IdleContext ==
  [pc |-> "idle", op |-> "none", reg |-> -1, val |-> -1, prog |-> << >>,
   last |-> 0, ret |-> -1, at |-> -1, content |-> -1, overlap |-> FALSE]

CtxIdle == [serialized |-> FALSE, t |-> [i \in Contexts |-> IdleContext]]

\* the machine a call starts on
M0 == [chip |-> chip, bus |-> << >>, ops |-> << >>, last |-> 0]

\* a call that went through a handle never set may also stop the program
CrashOutcomes(ops) ==
  IF \E i \in 1..Len(ops) : ops[i].null THEN BOOLEAN ELSE {FALSE}

Init ==
  /\ \E impl \in Impls, t \in Transports, rp \in ResetPins :
       drv = Construct(impl, t, rp)
  /\ \E prod \in {EXPECT_PRODID, 81}, manu \in {EXPECT_MANUID, 0},
        rev \in {EXPECT_REV, 130}, status \in {0, 5} :
       chip = ChipWith(prod, manu, rev, status, 129)
  /\ call = NoCall
  /\ ncalls = 0
  /\ crashed = FALSE
  /\ xfer = XferIdle
  /\ ctx = CtxIdle

-----------------------------------------------------------------------------
(* Actions: one per public method                                          *)

BeginCall ==
  /\ ncalls < MaxCalls
  /\ ~crashed
  /\ \E opens \in BOOLEAN :
       \E r \in {Begin(drv, M0, opens)} :
          /\ drv' = r.d
          /\ chip' = r.m.chip
          /\ call' = [name |-> "begin", reg |-> -1,
                      val |-> IF opens THEN 1 ELSE 0, ret |-> r.ret,
                      ops |-> r.m.ops, bus |-> r.m.bus, before |-> chip]
  /\ ncalls' = ncalls + 1
  /\ UNCHANGED <<crashed, xfer, ctx>>

ReadCall(foreigns) ==
  /\ ncalls < MaxCalls
  /\ ~crashed
  /\ \E reg \in TestRegs, g \in GarbageFor(drv), foreign \in foreigns :
       \E m \in {ReadRegister(drv, M0, reg, g, foreign)} :
          /\ chip' = m.chip
          /\ call' = [name |-> "readRegister", reg |-> reg, val |-> -1,
                      ret |-> m.last, ops |-> m.ops, bus |-> m.bus,
                      before |-> chip]
          /\ crashed' \in CrashOutcomes(m.ops)
  /\ ncalls' = ncalls + 1
  /\ UNCHANGED <<drv, xfer, ctx>>

WriteCall ==
  /\ ncalls < MaxCalls
  /\ ~crashed
  /\ \E reg \in TestRegs, v \in TestVals :
       \E m \in {WriteRegister(drv, M0, reg, v)} :
          /\ chip' = m.chip
          /\ call' = [name |-> "writeRegister", reg |-> reg, val |-> v,
                      ret |-> -1, ops |-> m.ops, bus |-> m.bus,
                      before |-> chip]
          /\ crashed' \in CrashOutcomes(m.ops)
  /\ ncalls' = ncalls + 1
  /\ UNCHANGED <<drv, xfer, ctx>>

TouchedCall ==
  /\ ncalls < MaxCalls
  /\ ~crashed
  /\ \E g1 \in GarbageFor(drv), g2 \in GarbageFor(drv) :
       \E r \in {Touched(drv, M0, g1, g2)} :
          /\ chip' = r.m.chip
          /\ call' = [name |-> "touched", reg |-> -1, val |-> -1,
                      ret |-> r.ret, ops |-> r.m.ops, bus |-> r.m.bus,
                      before |-> chip]
          /\ crashed' \in CrashOutcomes(r.m.ops)
  /\ ncalls' = ncalls + 1
  /\ UNCHANGED <<drv, xfer, ctx>>

LEDpolarityCall ==
  /\ ncalls < MaxCalls
  /\ ~crashed
  /\ \E inverted \in {0, 1} :
       \E m \in {LEDpolarity(drv, M0, inverted)} :
          /\ chip' = m.chip
          /\ call' = [name |-> "LEDpolarity", reg |-> -1, val |-> inverted,
                      ret |-> -1, ops |-> m.ops, bus |-> m.bus,
                      before |-> chip]
          /\ crashed' \in CrashOutcomes(m.ops)
  /\ ncalls' = ncalls + 1
  /\ UNCHANGED <<drv, xfer, ctx>>

Next ==
  \/ BeginCall
  \/ ReadCall({-1})
  \/ WriteCall
  \/ TouchedCall
  \/ LEDpolarityCall

Spec == Init /\ [][Next]_vars

-----------------------------------------------------------------------------
(* A started driver: the instance and the chip after begin() succeeded on  *)
(* a chip with the expected identity                                       *)

Started ==
  [impl \in Impls |-> [t \in Transports |->
     Begin(Construct(impl, t, NO_PIN),
           [chip |-> ChipWith(EXPECT_PRODID, EXPECT_MANUID, EXPECT_REV, 0, 0),
            bus |-> << >>, ops |-> << >>, last |-> 0],
           TRUE)]]

-----------------------------------------------------------------------------
(* touched() on a started driver, for every touch status and every content *)
(* of the main control register                                            *)

InitTouched ==
  /\ \E impl \in Impls, t \in Transports, s \in Byte, main \in Byte :
       /\ drv = Started[impl][t].d
       /\ chip = StoreReg(StoreReg(Started[impl][t].m.chip,
                                   CAP1188_SENINPUTSTATUS, s),
                          CAP1188_MAIN, main)
  /\ call = NoCall
  /\ ncalls = 0
  /\ crashed = FALSE
  /\ xfer = XferIdle
  /\ ctx = CtxIdle

TouchedOnce == call.name = "none" /\ TouchedCall

SpecTouched == InitTouched /\ [][TouchedOnce]_vars

-----------------------------------------------------------------------------
(* writeRegister(r, v) followed by readRegister(r) on a started driver     *)

InitStarted ==
  /\ \E impl \in Impls, t \in Transports :
       /\ drv = Started[impl][t].d
       /\ chip = Started[impl][t].m.chip
  /\ call = NoCall
  /\ ncalls = 0
  /\ crashed = FALSE
  /\ xfer = XferIdle
  /\ ctx = CtxIdle

WriteThenRead ==
  /\ call.name = "none"
  /\ \E r \in Byte, v \in Byte :
       \E m \in {ReadRegister(drv, WriteRegister(drv, M0, r, v), r, 0, -1)} :
          /\ chip' = m.chip
          /\ call' = [name |-> "writeThenRead", reg |-> r, val |-> v,
                      ret |-> m.last, ops |-> m.ops, bus |-> m.bus,
                      before |-> chip]
  /\ ncalls' = ncalls + 2
  /\ UNCHANGED <<drv, crashed, xfer, ctx>>

SpecRoundTrip == InitStarted /\ [][WriteThenRead]_vars

-----------------------------------------------------------------------------
(* The I2C transport on a bus shared with another controller               *)

\* registers the other controller may point the chip at
ForeignRegs == {CAP1188_MAIN, CAP1188_LEDPOL}

InitI2C ==
  /\ \E impl \in Impls, s \in {0, 5} :
       /\ drv = Started[impl]["i2c"].d
       /\ chip = StoreReg(StoreReg(Started[impl]["i2c"].m.chip,
                                   CAP1188_SENINPUTSTATUS, s),
                          CAP1188_MAIN, 129)
  /\ call = NoCall
  /\ ncalls = 0
  /\ crashed = FALSE
  /\ xfer = XferIdle
  /\ ctx = CtxIdle

NextI2C ==
  \/ ReadCall({-1} \cup ForeignRegs)
  \/ WriteCall

SpecI2C == InitI2C /\ [][NextI2C]_vars

-----------------------------------------------------------------------------
(* The bit-banged transfer of one byte, for every byte and every sequence  *)
(* of MISO levels                                                          *)

InitXfer ==
  /\ drv = Started["legacy"]["swspi"].d
  /\ chip = Started["legacy"]["swspi"].m.chip
  /\ call = NoCall
  /\ ncalls = 0
  /\ crashed = FALSE
  /\ \E data \in Byte, miso \in [1..8 -> Bit] :
       xfer = [data |-> data, miso |-> miso, done |-> FALSE,
               reply |-> 0, pins |-> << >>]
  /\ ctx = CtxIdle

SpixferCall ==
  /\ ~xfer.done
  /\ drv.clk # NO_PIN
  /\ \E x \in {SoftSpixfer(xfer.data, xfer.miso)} :
       xfer' = [xfer EXCEPT !.done = TRUE, !.reply = x.reply, !.pins = x.pins]
  /\ UNCHANGED <<drv, chip, call, ncalls, crashed, ctx>>

SpecXfer == InitXfer /\ [][SpixferCall]_vars

-----------------------------------------------------------------------------
(* Two execution contexts (main program and an interrupt handler, or two   *)
(* tasks) calling readRegister / writeRegister on one started SPI          *)
(* instance.  A call runs its bus operations one at a time; unless the     *)
(* application serializes the calls, the other context may run in between. *)

\* registers and the value the two contexts work with
ConcRegs == {CAP1188_MAIN, CAP1188_SENINPUTSTATUS}

ConcVals == {170}

InitConcurrent ==
  /\ \E impl \in Impls, t \in {"hwspi", "swspi"} :
       /\ drv = Started[impl][t].d
       /\ chip = StoreReg(StoreReg(Started[impl][t].m.chip,
                                   CAP1188_SENINPUTSTATUS, 5),
                          CAP1188_MAIN, 129)
  /\ call = NoCall
  /\ ncalls = 0
  /\ crashed = FALSE
  /\ xfer = XferIdle
  /\ \E ser \in BOOLEAN : ctx = [CtxIdle EXCEPT !.serialized = ser]

\* whether the head of prog is the data byte of the transaction: its last
\* SPI byte
IsDataByte(prog) ==
  /\ Head(prog).k = "xfer"
  /\ \A j \in 2..Len(prog) : prog[j].k # "xfer"

\* context i enters readRegister(reg) or writeRegister(reg, v)
CtxEnter(i) ==
  /\ ctx.t[i].pc = "idle"
  /\ ctx.serialized => \A j \in Contexts : ctx.t[j].pc # "run"
  /\ \E op \in {"read", "write"}, reg \in ConcRegs, v \in ConcVals :
       ctx' = [ctx EXCEPT !.t[i] =
                 [IdleContext EXCEPT
                    !.pc = "run", !.op = op, !.reg = reg,
                    !.val = IF op = "write" THEN v ELSE -1,
                    !.prog = CASE op = "read" /\ drv.impl = "busio" ->
                                    ReadBusio(drv, reg)
                               [] op = "read" /\ drv.impl = "legacy" ->
                                    ReadLegacy(drv, reg)
                               [] op = "write" /\ drv.impl = "busio" ->
                                    WriteBusio(drv, reg, ToUint8(v))
                               [] OTHER -> WriteLegacy(drv, reg, ToUint8(v))]]
  /\ UNCHANGED <<drv, chip, call, ncalls, crashed, xfer>>

\* context i does its next bus operation; after the last one the method
\* returns (a read returns the last byte it received)
CtxStep(i) ==
  /\ ctx.t[i].pc = "run"
  /\ \E m \in {Step(drv, [chip |-> chip, bus |-> << >>, ops |-> << >>,
                          last |-> ctx.t[i].last],
                    Head(ctx.t[i].prog), -1)} :
       LET c == ctx.t[i]
           data == IsDataByte(c.prog)
           want == IF c.op = "read" THEN "read" ELSE "data"
           rest == Tail(c.prog)
           me == [c EXCEPT
                    !.prog = rest,
                    !.last = m.last,
                    !.at = IF data
                           THEN (IF chip.dec = want THEN chip.ptr ELSE -1)
                           ELSE @,
                    !.content = IF data THEN RegValue(chip, c.reg) ELSE @,
                    !.pc = IF rest = << >> THEN "done" ELSE "run",
                    !.ret = IF rest = << >> /\ c.op = "read"
                            THEN (IF data THEN m.last ELSE c.last) ELSE @]
       IN /\ chip' = m.chip
          /\ ctx' = [ctx EXCEPT !.t =
                       [j \in Contexts |->
                          IF j = i THEN me
                          ELSE IF ctx.t[j].pc = "run"
                               THEN [ctx.t[j] EXCEPT !.overlap = TRUE]
                               ELSE ctx.t[j]]]
  /\ UNCHANGED <<drv, call, ncalls, crashed, xfer>>

NextConcurrent ==
  \/ \E i \in Contexts : CtxEnter(i)
  \/ \E i \in Contexts : CtxStep(i)

SpecConcurrent == InitConcurrent /\ [][NextConcurrent]_vars

-----------------------------------------------------------------------------
(* Properties.  call is the last completed call with the register          *)
(* operations it made (call.ops), its bus trace (call.bus) and the chip as  *)
(* it was when the call began (call.before).                               *)

IsRead(o) == o.op = "read"

IsWrite(o) == o.op = "write"

\* the <<register, value>> pairs of the writes among ops, in order
WritePairs(ops) ==
  LET w == SelectSeq(ops, IsWrite)
  IN [i \in 1..Len(w) |-> << w[i].reg, w[i].val >>]

\* a read of an identity register that returned something else than the
\* value the data sheet gives
IdentityMismatch(o) ==
  /\ o.op = "read"
  /\ \/ o.reg = 253 /\ o.val # 80
     \/ o.reg = 254 /\ o.val # 93
     \/ o.reg = 255 /\ o.val # 131

ChipIdentityOk(c) ==
  /\ RegValue(c, 253) = 80
  /\ RegValue(c, 254) = 93
  /\ RegValue(c, 255) = 131

\* events of register traffic or of the reset pin
IsTraffic(e) == e.k \in {"reset", "xfer", "start", "rstart", "wr", "rd"}

IsSpiFrame(e) == e.k \in {"cs", "xfer"}

\* the registers a chip holds a written or built-in value for; any other
\* register reads 0
RegsOf(c) == DOMAIN c.regs

(* C1: when one of the identity register reads of begin() returns a value  *)
(* other than the expected one (product 0x50, manufacturer 0x5D, revision  *)
(* 0x83), begin() returns false and has written no register.               *)
C1_MismatchFails ==
  (/\ call.name = "begin"
   /\ \E i \in 1..Len(call.ops) : IdentityMismatch(call.ops[i]))
  => /\ call.ret = 0
     /\ WritePairs(call.ops) = << >>

\* begin() on an opened bus got as far as the revision and found it wrong
C1_Witness ==
  /\ call.name = "begin"
  /\ drv.opened
  /\ Len(call.ops) = 7
  /\ IdentityMismatch(call.ops[7])
  /\ call.ops[7].reg = 255
  /\ call.ret = 0

(* C2: when the bus opens and the chip has the expected identity, begin()  *)
(* returns true and its register writes are exactly 0x2A := 0x00,          *)
(* 0x72 := 0xFF, 0x41 := 0x30 in this order, all after its last read.      *)
C2_ConfigWrites ==
  (/\ call.name = "begin"
   /\ drv.opened
   /\ ChipIdentityOk(chip))
  => /\ call.ret = 1
     /\ WritePairs(call.ops) = << <<42, 0>>, <<114, 255>>, <<65, 48>> >>
     /\ \A i, j \in 1..Len(call.ops) :
          (IsWrite(call.ops[i]) /\ IsRead(call.ops[j])) => j < i
     /\ \E j \in 1..Len(call.ops) : IsRead(call.ops[j])
     /\ RegValue(chip, 42) = 0 /\ RegValue(chip, 114) = 255
     /\ RegValue(chip, 65) = 48

C2_Witness ==
  /\ call.name = "begin"
  /\ drv.opened
  /\ ChipIdentityOk(chip)
  /\ call.ret = 1
  /\ Len(call.ops) = 10
  /\ drv.ctor = "swspi"

(* C3: when opening the bus fails, begin() returns false at once: no reset *)
(* pulse, no register read, no register write, whatever the transport.     *)
C3_OpenFailure ==
  (call.name = "begin" /\ ~drv.opened)
  => /\ call.ret = 0
     /\ call.ops = << >>
     /\ \A i \in 1..Len(call.bus) : ~IsTraffic(call.bus[i])

\* the open failed on an instance that has a reset pin and a good chip
C3_Witness ==
  /\ call.name = "begin"
  /\ call.val = 0
  /\ ~drv.opened
  /\ drv.resetpin # NO_PIN
  /\ ChipIdentityOk(chip)
  /\ call.ret = 0

(* C7: every register operation goes to the transport of the constructor   *)
(* that built the instance, before begin() as well as after.               *)
C7_FixedDispatch ==
  \A i \in 1..Len(call.ops) : call.ops[i].via = Selected(drv)

(* C8: on SPI a register read or write is two chip-select bracketed        *)
(* phases: select, 0x7D, register, deselect; select, 0x7F or 0x7E, the     *)
(* data byte, deselect.                                                    *)
C8_TwoPhases ==
  (/\ call.name \in {"readRegister", "writeRegister"}
   /\ Len(call.ops) = 1
   /\ call.ops[1].ok
   /\ call.ops[1].via = "spi")
  => LET f == SelectSeq(call.bus, IsSpiFrame)
     IN /\ Len(f) = 8
        /\ f[1] = Ev("cs", 0, 0)
        /\ f[2].k = "xfer" /\ f[2].a = 125
        /\ f[3].k = "xfer" /\ f[3].a = call.reg
        /\ f[4] = Ev("cs", 1, 0)
        /\ f[5] = Ev("cs", 0, 0)
        /\ f[6].k = "xfer"
        /\ f[6].a = (IF call.name = "readRegister" THEN 127 ELSE 126)
        /\ f[7].k = "xfer"
        /\ (call.name = "writeRegister" => f[7].a = call.val)
        /\ (call.name = "readRegister" => f[7].b = call.ret)
        /\ f[8] = Ev("cs", 1, 0)

(* C4: when the sensor input status reads 0, touched() returns 0 after     *)
(* exactly one register read (of 0x03) and no register write: every chip   *)
(* register is as it was before the call.                                  *)
C4_NoTouch ==
  (call.name = "touched" /\ RegValue(call.before, 3) = 0)
  => /\ call.ret = 0
     /\ Len(call.ops) = 1
     /\ call.ops[1].op = "read"
     /\ call.ops[1].reg = 3
     /\ \A r \in RegsOf(chip) \cup RegsOf(call.before) :
          RegValue(chip, r) = RegValue(call.before, r)

C4_Witness ==
  /\ call.name = "touched"
  /\ RegValue(call.before, 3) = 0
  /\ RegValue(call.before, 0) = 255
  /\ RegValue(chip, 0) = 255
  /\ call.ret = 0
  /\ Len(call.ops) = 1

(* C5: when the sensor input status reads s # 0, touched() returns s after *)
(* reading the main control register 0x00 (value m) and writing it back    *)
(* with bit 0 cleared and the other bits kept; it touches no register      *)
(* other than 0x03 and 0x00.                                               *)
C5_TouchAcknowledged ==
  (call.name = "touched" /\ RegValue(call.before, 3) # 0)
  => LET s == RegValue(call.before, 3)
         m == RegValue(call.before, 0)
         o == call.ops
     IN /\ call.ret = s
        /\ Len(o) = 3
        /\ o[1].op = "read" /\ o[1].reg = 3 /\ o[1].val = s
        /\ o[2].op = "read" /\ o[2].reg = 0 /\ o[2].val = m
        /\ o[3].op = "write" /\ o[3].reg = 0 /\ o[3].val = m - (m % 2)
        /\ RegValue(chip, 0) = m - (m % 2)
        /\ \A r \in (RegsOf(chip) \cup RegsOf(call.before)) \ {0} :
             RegValue(chip, r) = RegValue(call.before, r)

\* every pad touched, every bit of the main control register set before
C5_Witness ==
  /\ call.name = "touched"
  /\ RegValue(call.before, 3) = 255
  /\ RegValue(call.before, 0) = 255
  /\ call.ret = 255
  /\ Len(call.ops) = 3
  /\ RegValue(chip, 0) = 254

C9_AtomicRead ==
  (/\ call.name = "readRegister"
   /\ Len(call.ops) = 1
   /\ call.ops[1].ok
   /\ call.ops[1].via = "i2c")
  => /\ \E i, j \in 1..Len(call.bus) :
          /\ i < j
          /\ call.bus[i].k = "wr" /\ call.bus[i].a = call.reg
          /\ call.bus[j].k = "rd"
          /\ \A x \in (i + 1)..(j - 1) : call.bus[x].k \notin {"stop", "foreign"}
     /\ call.ret = RegValue(chip, call.reg)

\* the clock edges that go from low to high, the clock idling high
RisingEdges(pins) ==
  {i \in 1..Len(pins) :
     /\ pins[i] = Ev("clk", 1, 0)
     /\ \E j \in 1..(i - 1) :
          /\ pins[j] = Ev("clk", 0, 0)
          /\ \A x \in (j + 1)..(i - 1) : pins[x].k # "clk"}

(* C10: the software SPI transfer of a byte d makes 8 rising clock edges;  *)
(* before the k-th it drives MOSI to bit 8-k of d (most significant        *)
(* first), after it it samples MISO once, and the reply is the 8 samples   *)
(* with the first as most significant bit.                                 *)
C10_BitTransfer ==
  xfer.done
  => LET p == xfer.pins
         bit(k) == (xfer.data \div (2 ^ (8 - k))) % 2
     IN /\ Len(p) = 32
        /\ Cardinality(RisingEdges(p)) = 8
        /\ \A k \in 1..8 :
             /\ p[4 * k - 3] = Ev("clk", 0, 0)
             /\ p[4 * k - 2] = Ev("mosi", bit(k), 0)
             /\ p[4 * k - 1] = Ev("clk", 1, 0)
             /\ p[4 * k] = Ev("miso", xfer.miso[k], 0)
        /\ xfer.reply = 128 * xfer.miso[1] + 64 * xfer.miso[2]
                        + 32 * xfer.miso[3] + 16 * xfer.miso[4]
                        + 8 * xfer.miso[5] + 4 * xfer.miso[6]
                        + 2 * xfer.miso[7] + xfer.miso[8]

C10_Witness ==
  /\ xfer.done
  /\ xfer.data = 165
  /\ xfer.reply = 90
  /\ Len(xfer.pins) = 32

\* a finished call that acted on the register it was asked for: the chip
\* had that register selected, in the right mode, when the data byte went
\* over the bus, and a read returned what the register held
ActedOnItsRegister(c) ==
  /\ c.at = c.reg
  /\ c.op = "read" => c.ret = c.content

(* C11: two contexts calling readRegister / writeRegister on one SPI       *)
(* instance.  When the calls are serialized (no bus operation of the other *)
(* context falls inside a call) every call acts on its own register;       *)
(* without serialization the bus operations can interleave so that a call  *)
(* acts on the register the other context selected.                        *)
C11_SerializedSafe ==
  \A i \in Contexts :
    /\ ctx.serialized => ~ctx.t[i].overlap
    /\ (ctx.t[i].pc = "done" /\ ~ctx.t[i].overlap)
       => ActedOnItsRegister(ctx.t[i])

\* no serialization, legacy driver: readRegister(0x03) of context 1 returned
\* the content of register 0x00, which context 2 had selected in between
C11_Witness ==
  /\ ~ctx.serialized
  /\ drv.impl = "legacy"
  /\ ctx.t[1].pc = "done" /\ ctx.t[1].op = "read" /\ ctx.t[1].reg = 3
  /\ ctx.t[1].overlap
  /\ ctx.t[2].op = "read" /\ ctx.t[2].reg = 0
  /\ ctx.t[1].at = 0
  /\ ctx.t[1].ret = 129
  /\ ctx.t[1].content = 5

====
